---------------------------- MODULE Spec2Model ----------------------------
(***************************************************************************)
(* State-machine model of CANTelemetry (src/src/can-telemetry.cpp): the    *)
(* poll / change_timeout / _decode / _set_mask methods driving one CAN     *)
(* channel.  One poll call is a sequence of atomic steps (one per bus      *)
(* operation or clock read of the code); the bus receive queue and the     *)
(* millisecond clock evolve between those steps.                           *)
(*                                                                         *)
(* Scaling: `unsigned long` is ClockBits wide here (32 on the target), an  *)
(* `int` timeout argument is converted to it modulo 2^ClockBits.           *)
(* A uint64_t is kept as four 16-bit limbs, least significant first.       *)
(***************************************************************************)
EXTENDS Integers, Sequences, FiniteSets, TLC

\* ------------------------------------------------------------------ bounds
\* width in bits of `unsigned long` / millis() in the model
ClockBits == 2
\* capacity of the bus receive queue in the model
MaxQueue == 1

RECURSIVE Pow2(_)
Pow2(n) == IF n = 0 THEN 1 ELSE 2 * Pow2(n - 1)

\* number of values of an `unsigned long`: arithmetic on it is modulo Wrap
Wrap == Pow2(ClockBits)
\* the `int` timeout arguments tried: negative, zero, small
IntArgs == {-1, 0, 1, 2}
\* those of them the constructor is given; the others come by change_timeout
CtorTimeouts == {0, 2}
\* (unsigned long) conversion of an int
ToULong(i) == i % Wrap
\* cap of the ghost counter of milliseconds elapsed in the wait loop
MaxElapsed == Wrap

\* ---------------------------------------------------------------- constants
\* the comparison mask of every filter entry, 0x7FF
CompareMask == 2047
\* (uint64_t)-1, as limbs
Sentinel == <<65535, 65535, 65535, 65535>>
\* no value returned yet
NoValue == <<>>

Modes == {"CALL_AND_RESP", "PASSIVE_POLL"}
ErrorCodes == {"CAN_NO_ERROR", "CAN_BUS_OFF"}

Zeros8 == <<0, 0, 0, 0, 0, 0, 0, 0>>
\* a default-constructed CANMessage: everything zero
EmptyMessage == [id |-> 0, len |-> 0, rtr |-> FALSE, data |-> Zeros8]

\* ------------------------------------------------------------------ inputs
NodeIds == {256}
\* the bit rate the poller of Spec was constructed with
BaudRate == 500000
\* the bit rates tried when the constructor itself is run
BaudRates == {125000, BaudRate}
\* no _decode call under observation
NoProbe == <<>>
\* identifiers used as header and filter arguments (0x100 is the node's own)
Ids == {256, 512}
\* the payload array handed to poll (8 readable bytes)
Payload == <<1, 2, 3, 4, 5, 6, 7, 8>>
\* the len arguments tried: negative, partial, full, too long
Lens == {-1, 2, 8, 9}
\* frames other nodes put on the bus
Frames ==
  { [id |-> 512, len |-> 1, rtr |-> FALSE, data |-> <<42, 0, 0, 0, 0, 0, 0, 0>>],
    [id |-> 512, len |-> 8, rtr |-> FALSE, data |-> <<1, 2, 3, 4, 5, 6, 7, 255>>],
    [id |-> 256, len |-> 2, rtr |-> FALSE,
     data |-> <<7, 1, 238, 238, 238, 238, 238, 238>>] }

\* ------------------------------------------------------------------- state
VARIABLES
  pc,        \* position of the caller / of the poll call in progress
  filters,   \* the bus's installed acceptance filters: set of <<id, mask>>
  rxQueue,   \* frames the bus accepted and has not delivered yet
  clock,     \* millis(), modulo Wrap
  _node_id,  \* CANTelemetry::_node_id
  _timeout,  \* CANTelemetry::_timeout (unsigned long)
  header, filter, mode, frame, len,   \* arguments of the poll call in progress
  t_stamp,   \* poll's local t_stamp
  response,  \* poll's local response
  retval,    \* the value the poll call in progress returns
  ops,       \* ghost: bus operations of the call in progress, in order
  path,      \* ghost: which branch the call in progress left through
  elapsed,   \* ghost: milliseconds that passed since t_stamp was taken (kept
             \* after the wait only when it ended by the timeout)
  fresh,     \* ghost: millis() was read since the clock last advanced
  _baud_rate, \* CANTelemetry::_baud_rate
  _debug,    \* CANTelemetry::_debug
  t_arg,     \* ghost: the int last given as timeout (constructor or
             \* change_timeout), before its conversion to unsigned long
  entry,     \* ghost: the overload through which the call in progress entered
  probe      \* inputs and results of the _decode calls of DecodeSpec

vars == <<pc, filters, rxQueue, clock, _node_id, _timeout, header, filter, mode,
          frame, len, t_stamp, response, retval, ops, path, elapsed, fresh,
          _baud_rate, _debug, t_arg, entry, probe>>

bus == <<filters, rxQueue>>
args == <<header, filter, mode, frame, len, entry>>
fields == <<_node_id, _timeout, t_arg, _baud_rate, _debug>>

\* ----------------------------------------------------------- pure helpers
RECURSIVE BitAnd(_, _)
BitAnd(a, b) ==
  IF a = 0 \/ b = 0 THEN 0
  ELSE (a % 2) * (b % 2) + 2 * BitAnd(a \div 2, b \div 2)

\* acceptance by the bus: with no filter installed every frame is accepted
Accepts(fs, id) ==
  \/ fs = {}
  \/ \E f \in fs : BitAnd(id, f[2]) = BitAnd(f[1], f[2])

\* variant of _decode that adds the two bytes of a limb without shifting
_decode_NoShift(arr, n) ==
  LET buf == [i \in 1..8 |-> IF i <= n THEN arr[i] ELSE 0]
  IN  [k \in 1..4 |-> buf[2 * k - 1] + buf[2 * k]]

\* variant of _decode that copies all eight bytes, whatever len is
_decode_AllBytes(arr, n) ==
  [k \in 1..4 |-> arr[2 * k - 1] + 256 * arr[2 * k]]

\* _decode: copy len bytes into a zeroed 8-byte buffer and read it as one
\* little-endian uint64_t (limbs of 16 bits, least significant first)
_decode(arr, n) ==
  LET buf == [i \in 1..8 |-> IF i <= n THEN arr[i] ELSE 0]
  IN  [k \in 1..4 |-> buf[2 * k - 1] + 256 * buf[2 * k]]

\* variant of the request that copies all eight payload bytes
Request_CopyAll(h, fr, pl, n) ==
  [id |-> h, len |-> n % 256, rtr |-> fr, data |-> [i \in 1..8 |-> pl[i]]]

\* the request frame poll builds: id, len (a uint8_t), rtr, len payload bytes
Request(h, fr, pl, n) ==
  [id |-> h, len |-> n % 256, rtr |-> fr,
   data |-> [i \in 1..8 |-> IF i <= n THEN pl[i] ELSE 0]]

\* variant of the diagnostic frame whose id is left at its default
Diagnostic_NoId(node) == EmptyMessage

\* the diagnostic frame of the error branch
Diagnostic(node) == [EmptyMessage EXCEPT !.id = node]

\* variant of the mode test that transmits in every mode
Sends_Always(m) == TRUE

\* the mode test that guards the request transmit
Sends(m) == m = "CALL_AND_RESP"

\* variant of the length check that is off by one
TooLong_OffByOne(n) == n > 9

\* the check at the top of poll
TooLong(n) == n > 8

\* variant of the deadline test that forgets when the wait began
Expired_NoStamp(now, stamp, limit) == now % Wrap >= limit

\* variant of the deadline test in signed arithmetic, without the wrap
Expired_NoWrap(now, stamp, limit) == now - stamp >= limit

\* variant of the deadline test with a strict comparison
Expired_Strict(now, stamp, limit) == (now - stamp) % Wrap > limit

\* the deadline test of the wait loop
Expired(now, stamp, limit) == (now - stamp) % Wrap >= limit

\* variant of the default mask: 0 instead of the node id
DefaultMask_Zero(node) == 0

\* the mask _set_mask() installs
DefaultMask(node) == node

\* variant of the status branch that waits whatever the status is
AfterStatus_AlwaysWait(e) == "recv"

\* variant of the loop that tests the deadline before the first receive
AfterStatus_DeadlineFirst(e) == IF e = "CAN_NO_ERROR" THEN "deadline" ELSE "diag"

\* where poll goes after errorStatus()
AfterStatus(e) == IF e = "CAN_NO_ERROR" THEN "recv" ELSE "diag"

\* variant of the matched branch that returns without restoring the filter
AfterReceive_NoRestore(got) == IF got THEN "ret" ELSE "deadline"

\* where poll goes after a receive() attempt
AfterReceive(got) == IF got THEN "clear2" ELSE "deadline"

\* ghost log: consecutive failed receive() attempts are logged once
Log(o, e) ==
  IF e.op = "receive" /\ ~e.ok /\ o # <<>> /\ o[Len(o)] = e THEN o ELSE Append(o, e)

\* ------------------------------------------------------------------ Init
\* the state the constructor leaves (debug off, one bit rate: poll and
\* change_timeout read neither field)
Init ==
  /\ pc = "idle"
  /\ _node_id \in NodeIds
  /\ t_arg \in CtorTimeouts
  /\ _timeout = ToULong(t_arg)
  /\ _baud_rate = BaudRate
  /\ _debug = FALSE
  /\ entry = "none"
  /\ probe = NoProbe
  /\ filters = {<<DefaultMask(_node_id), CompareMask>>}
  /\ rxQueue = <<>>
  /\ clock \in 0 .. (Wrap - 1)
  /\ header = 0 /\ filter = 0 /\ mode = "PASSIVE_POLL" /\ frame = FALSE /\ len = 0
  /\ t_stamp = 0
  /\ response = EmptyMessage
  /\ retval = NoValue
  /\ ops = <<>>
  /\ path = "none"
  /\ elapsed = 0
  /\ fresh = TRUE

\* ------------------------------------------------------------- environment
InWait == pc \in {"recv", "deadline"}

\* the millisecond counter advances by one
Advance ==
  /\ InWait => elapsed < MaxElapsed
  /\ clock' = (clock + 1) % Wrap
  /\ elapsed' = IF InWait THEN elapsed + 1 ELSE elapsed
  /\ UNCHANGED <<pc, bus, fields, probe, args, t_stamp, response, retval, ops, path>>

\* the clock advances at any moment, any number of times between two steps
Tick == Advance /\ UNCHANGED fresh

\* the clock advances, but during the wait only after the loop has read it:
\* one iteration of the busy loop takes less than a millisecond
TickPaced ==
  /\ InWait => fresh
  /\ Advance
  /\ fresh' = ~InWait

\* a frame of another node passes the acceptance filters and is queued
BusArrive ==
  \E f \in Frames :
    /\ Len(rxQueue) < MaxQueue
    /\ Accepts(filters, f.id)
    /\ rxQueue' = Append(rxQueue, f)
    /\ UNCHANGED <<pc, filters, clock, fields, probe, args, t_stamp, response, retval,
                   ops, path, elapsed, fresh>>

\* --------------------------------------------------------- change_timeout
\* variant of the assignment that adds to the timeout instead of replacing it
NewTimeout_Add(old, t) == (old + ToULong(t)) % Wrap

\* _timeout = (unsigned long)timeout
NewTimeout(old, t) == ToULong(t)

ChangeTimeout ==
  \E t \in IntArgs :
    /\ pc = "idle"
    /\ _timeout' = NewTimeout(_timeout, t)
    /\ t_arg' = t
    /\ UNCHANGED <<pc, bus, clock, _node_id, _baud_rate, _debug, probe, args, t_stamp, response, retval,
                   ops, path, elapsed, fresh>>

\* ------------------------------------------------------------------- poll
\* control enters the six-argument poll with these arguments
Enter(h, f, m, fr, n, via) ==
  /\ pc = "idle"
  /\ pc' = "guard"
  /\ header' = h /\ filter' = f /\ mode' = m /\ frame' = fr /\ len' = n
  /\ entry' = via
  /\ ops' = <<>> /\ path' = "none" /\ elapsed' = 0 /\ retval' = NoValue
  /\ UNCHANGED <<bus, clock, fields, probe, t_stamp, response, fresh>>

\* the caller enters poll(header, filter, mode, frame, payload, len)
PollCall ==
  \E h \in Ids, f \in Ids, m \in Modes, fr \in BOOLEAN, n \in Lens :
    Enter(h, f, m, fr, n, "poll6")

\* variant of the overload that listens on the node's own id
OverloadFilter_Node(h) == 256

\* the filter the five-argument overload passes on: its header
OverloadFilter(h) == h

\* the caller enters poll(header, mode, frame, payload, len), which calls
\* poll(header, header, mode, frame, payload, len) and returns its result
PollOverload ==
  \E h \in Ids, m \in Modes, fr \in BOOLEAN, n \in Lens :
    Enter(h, OverloadFilter(h), m, fr, n, "poll5")

\* if (len > 8) return -1;
PollGuard ==
  /\ pc = "guard"
  /\ IF TooLong(len)
       THEN /\ pc' = "ret" /\ retval' = Sentinel /\ path' = "toolong"
       ELSE /\ pc' = "clear1" /\ UNCHANGED <<retval, path>>
  /\ UNCHANGED <<bus, clock, fields, probe, args, t_stamp, response, ops, elapsed, fresh>>

\* variant of clearFilters() that leaves the installed entries in place
Cleared_Keep(fs) == fs

\* the filter set after _can->clearFilters()
Cleared(fs) == {}

\* _set_mask: _can->clearFilters(); pc "clear0" is the constructor's call,
\* "clear1" poll's first and "clear2" poll's restoring call
SetMaskClear ==
  /\ pc \in {"clear0", "clear1", "clear2"}
  /\ filters' = Cleared(filters)
  /\ ops' = Log(ops, [op |-> "clearFilters"])
  /\ pc' = CASE pc = "clear0" -> "add0" [] pc = "clear1" -> "add1" [] OTHER -> "add2"
  /\ UNCHANGED <<rxQueue, clock, fields, probe, args, t_stamp, response, retval, path,
                 elapsed, fresh>>

\* _set_mask: _can->addFilter(mask, 0x7FF); after the restoring call poll
\* evaluates its return expression
SetMaskAdd ==
  /\ pc \in {"add0", "add1", "add2"}
  /\ LET mask == IF pc = "add1" THEN filter ELSE DefaultMask(_node_id)
     IN  /\ filters' = filters \cup {<<mask, CompareMask>>}
         /\ ops' = Log(ops, [op |-> "addFilter", id |-> mask, mask |-> CompareMask])
  /\ pc' = CASE pc = "add0" -> "constructed" [] pc = "add1" -> "send" [] OTHER -> "ret"
  /\ retval' = IF pc = "add2" /\ path = "matched"
                 THEN _decode(response.data, response.len)
                 ELSE IF pc = "add2" THEN Sentinel ELSE retval
  /\ UNCHANGED <<rxQueue, clock, fields, probe, args, t_stamp, response, path, elapsed, fresh>>

\* if (mode == CALL_AND_RESP) { build message; _can->transmit(message); }
PollSend ==
  /\ pc = "send"
  /\ ops' = IF Sends(mode)
              THEN Log(ops, [op |-> "transmit", kind |-> "request",
                             msg |-> Request(header, frame, Payload, len)])
              ELSE ops
  /\ pc' = "status"
  /\ UNCHANGED <<bus, clock, fields, probe, args, t_stamp, response, retval, path,
                 elapsed, fresh>>

\* if (_can->errorStatus() == CAN_NO_ERROR) { t_stamp = millis(); ... } else ...
PollStatus ==
  \E e \in ErrorCodes :
    /\ pc = "status"
    /\ ops' = Log(ops, [op |-> "errorStatus", result |-> e])
    /\ pc' = AfterStatus(e)
    /\ IF AfterStatus(e) = "recv"
         THEN t_stamp' = clock /\ elapsed' = 0 /\ fresh' = TRUE
         ELSE UNCHANGED <<t_stamp, elapsed, fresh>>
    /\ UNCHANGED <<bus, clock, fields, probe, args, response, retval, path>>

\* if (_can->receive(response)) { ... }
PollReceive ==
  /\ pc = "recv"
  /\ LET got == rxQueue # <<>>
     IN  /\ ops' = Log(ops, [op |-> "receive", ok |-> got])
         /\ pc' = AfterReceive(got)
         /\ IF got
              THEN /\ response' = Head(rxQueue)
                   /\ rxQueue' = Tail(rxQueue)
                   /\ path' = "matched"
                   /\ t_stamp' = 0 /\ elapsed' = 0 /\ fresh' = TRUE
              ELSE UNCHANGED <<response, rxQueue, path, t_stamp, elapsed, fresh>>
  /\ UNCHANGED <<filters, clock, fields, probe, args, retval>>

\* if (millis() - t_stamp >= _timeout) { ... }
PollDeadline ==
  /\ pc = "deadline"
  /\ fresh' = TRUE
  /\ IF Expired(clock, t_stamp, _timeout)
       THEN pc' = "clear2" /\ path' = "timeout" /\ t_stamp' = 0
       ELSE pc' = "recv" /\ UNCHANGED <<path, t_stamp>>
  /\ UNCHANGED <<bus, clock, fields, probe, args, response, retval, ops, elapsed>>

\* CANMessage clear; clear.id = _node_id; _can->transmit(clear);
PollDiagnostic ==
  /\ pc = "diag"
  /\ ops' = Log(ops, [op |-> "transmit", kind |-> "diagnostic",
                      msg |-> Diagnostic(_node_id)])
  /\ path' = "error"
  /\ pc' = "clear2"
  /\ UNCHANGED <<bus, clock, fields, probe, args, t_stamp, response, retval, elapsed, fresh>>

\* poll returns retval to the caller; its locals go out of scope
PollReturn ==
  /\ pc = "ret"
  /\ pc' = "idle"
  /\ header' = 0 /\ filter' = 0 /\ mode' = "PASSIVE_POLL" /\ frame' = FALSE /\ len' = 0
  /\ entry' = "none"
  /\ t_stamp' = 0 /\ response' = EmptyMessage
  /\ ops' = <<>> /\ path' = "none" /\ elapsed' = 0
  /\ UNCHANGED <<bus, clock, fields, probe, retval, fresh>>

PollStep ==
  \/ PollGuard \/ SetMaskClear \/ SetMaskAdd \/ PollSend \/ PollStatus
  \/ PollReceive \/ PollDeadline \/ PollDiagnostic \/ PollReturn

Next == PollCall \/ PollOverload \/ PollStep \/ ChangeTimeout \/ Tick \/ BusArrive

Spec == Init /\ [][Next]_vars

\* the same program under a clock that keeps advancing and a loop that keeps
\* running: every enabled step of the call in progress is eventually taken
NextLive ==
  PollCall \/ PollOverload \/ PollStep \/ ChangeTimeout \/ TickPaced \/ BusArrive

LiveSpec == Init /\ [][NextLive]_vars /\ WF_vars(PollStep) /\ WF_vars(TickPaced)

\* ======================================================================
\* Properties
\* ======================================================================
DefaultFilters == {<<_node_id, CompareMask>>}
ValidLen == len \in 0..8
InCall == pc # "idle"
Restoring == pc \in {"clear2", "add2", "ret"}

\* entries of the log o that satisfy Test
Entries(o, Test(_)) == SelectSeq(o, Test)
IsTransmit(e) == e.op = "transmit"
IsRequest(e) == e.op = "transmit" /\ e.kind = "request"
IsDiagnostic(e) == e.op = "transmit" /\ e.kind = "diagnostic"
IsReceive(e) == e.op = "receive"
IsReceived(e) == e.op = "receive" /\ e.ok
IsStatus(e) == e.op = "errorStatus"

\* byte i (0 = least significant) of a uint64_t kept as 16-bit limbs
ByteOf(v, i) == (v[(i \div 2) + 1] \div (IF i % 2 = 0 THEN 1 ELSE 256)) % 256

\* C1: whenever no poll call is in progress (after construction, after any
\* sequence of poll and change_timeout calls), the bus holds exactly the one
\* filter entry (node_id, 0x7FF).
C1_IdleFilterIsDefault ==
  pc = "idle" => filters = {<<_node_id, 2047>>}

\* C1 witness: a poll call that installed another filter and matched a frame
\* has returned.
C1_Witness ==
  /\ pc = "idle"
  /\ retval = <<42, 0, 0, 0>>
  /\ filters = {<<256, 2047>>}

\* C2: a poll call with len > 8 performs no bus operation, leaves the filter
\* set and the timeout as they were, and returns 0xFFFFFFFFFFFFFFFF.
C2_TooLongNoBusOperation ==
  /\ [](InCall /\ len > 8 =>
          /\ pc \in {"guard", "ret"}
          /\ ops = <<>>
          /\ filters = DefaultFilters
          /\ pc = "ret" => retval = Sentinel)
  /\ [][InCall /\ len > 8 => UNCHANGED <<filters, _timeout, ops>>]_vars

\* C2 witness: a call with len = 9 is about to return.
C2_Witness ==
  pc = "ret" /\ len = 9 /\ retval = Sentinel /\ ops = <<>>

\* C3: every poll call whose len is outside [0, 8], a negative len included,
\* returns the sentinel at once without any bus operation.
C3_InvalidLenFastFail ==
  InCall /\ (len < 0 \/ len > 8) =>
    /\ pc \in {"guard", "ret"}
    /\ ops = <<>>
    /\ pc = "ret" => retval = Sentinel

\* C4: once receive() delivers a frame, poll makes no further receive()
\* attempt and returns the little-endian value of the frame's first
\* response.len data bytes (byte i of the result is data[i] for
\* i < response.len and 0 above); data [0x2A,0,...] of length 1 gives 42.
C4_MatchedReturnsDecodedFrame ==
  /\ Entries(ops, IsReceived) # <<>> =>
       /\ Restoring /\ path = "matched"
       /\ Len(Entries(ops, IsReceived)) = 1
       /\ \A i \in 1..Len(ops) :
            IsReceived(ops[i]) => \A j \in (i + 1)..Len(ops) : ~IsReceive(ops[j])
  /\ path = "matched" => Entries(ops, IsReceived) # <<>>
  /\ pc = "ret" /\ path = "matched" =>
       /\ \A i \in 0..7 :
            ByteOf(retval, i) = IF i < response.len THEN response.data[i + 1] ELSE 0
       /\ (response.len = 1 /\ response.data[1] = 42) => retval = <<42, 0, 0, 0>>

\* C4 witness: node 0x100 polls with header = filter = 0x200, payload length 2,
\* and the frame [0x2A,0,0,0,0,0,0,0] arrives: the call returns 42.
C4_Witness ==
  /\ pc = "ret" /\ path = "matched"
  /\ _node_id = 256 /\ header = 512 /\ filter = 512
  /\ mode = "CALL_AND_RESP" /\ len = 2
  /\ response.data = <<42, 0, 0, 0, 0, 0, 0, 0>>
  /\ retval = <<42, 0, 0, 0>>

\* C5: the timeout branch is taken only when at least _timeout milliseconds
\* have elapsed since the wait began and no receive() attempt delivered a
\* frame, and it returns 0xFFFFFFFFFFFFFFFF; a deadline test made when the
\* elapsed time has reached _timeout (within the counter's first period)
\* always takes it.
C5_TimeoutBranch ==
  /\ [](path = "timeout" =>
          /\ Restoring
          /\ elapsed >= _timeout
          /\ Entries(ops, IsReceived) = <<>>
          /\ pc = "ret" => retval = Sentinel)
  /\ [][pc = "deadline" /\ pc' # "deadline" /\ elapsed >= _timeout /\ elapsed < Wrap
          => pc' = "clear2" /\ path' = "timeout"]_vars
  /\ [][pc = "deadline" /\ elapsed < _timeout => path' # "timeout"]_vars

\* C5 witness: with timeout 2 and no frame, the call returns the sentinel
\* after exactly 2 ms and the default filter is back.
C5_Witness ==
  /\ pc = "ret" /\ path = "timeout"
  /\ _timeout = 2 /\ elapsed = 2
  /\ retval = Sentinel
  /\ filter = 512 /\ filters = {<<256, 2047>>}

ErrorSeen == \E i \in 1..Len(ops) : IsStatus(ops[i]) /\ ops[i].result # "CAN_NO_ERROR"

\* C6: on a valid call whose errorStatus() is not CAN_NO_ERROR, poll never
\* calls receive(), transmits exactly one diagnostic frame with id node_id
\* after the (at most one) request, so at most two frames in all, restores
\* the default filter and returns the sentinel.
C6_ErrorBranch ==
  InCall /\ ValidLen /\ ErrorSeen =>
    LET tx == Entries(ops, IsTransmit)
    IN  /\ pc \in {"diag", "clear2", "add2", "ret"}
        /\ Entries(ops, IsReceive) = <<>>
        /\ Len(tx) <= 2
        /\ Len(Entries(ops, IsRequest)) = (IF mode = "CALL_AND_RESP" THEN 1 ELSE 0)
        /\ Len(Entries(ops, IsDiagnostic)) = (IF pc = "diag" THEN 0 ELSE 1)
        /\ pc # "diag" =>
             /\ IsDiagnostic(tx[Len(tx)])
             /\ tx[Len(tx)].msg.id = _node_id
             /\ path = "error"
        /\ pc = "ret" => filters = DefaultFilters /\ retval = Sentinel

\* C6 witness: a query/response call on a bus in error returns after the
\* request and the diagnostic frame to 0x100.
C6_Witness ==
  /\ pc = "ret" /\ ErrorSeen /\ len = 2 /\ mode = "CALL_AND_RESP"
  /\ Len(Entries(ops, IsTransmit)) = 2
  /\ ops[5] = [op |-> "transmit", kind |-> "diagnostic",
               msg |-> [id |-> 256, len |-> 0, rtr |-> FALSE, data |-> Zeros8]]

\* C7 (as claimed): a PASSIVE_POLL call never calls transmit(), on any path.
C7_PassiveNeverTransmits ==
  InCall /\ mode = "PASSIVE_POLL" => Entries(ops, IsTransmit) = <<>>

\* C7 (amended): a PASSIVE_POLL call never transmits a request; on the
\* matched and timed-out paths it calls transmit() zero times, on the
\* bus-error path exactly once, for the diagnostic frame.
C7_PassiveNoRequest ==
  InCall /\ mode = "PASSIVE_POLL" =>
    /\ Entries(ops, IsRequest) = <<>>
    /\ path \in {"none", "matched", "timeout", "toolong"} =>
         Entries(ops, IsTransmit) = <<>>
    /\ path = "error" =>
         /\ Len(Entries(ops, IsTransmit)) = 1
         /\ IsDiagnostic(Entries(ops, IsTransmit)[1])

\* C7 witness: a passive call on a bus in error is about to return.
C7_Witness ==
  /\ pc = "ret" /\ mode = "PASSIVE_POLL" /\ path = "error"
  /\ Len(Entries(ops, IsTransmit)) = 1

\* C8: a valid CALL_AND_RESP call transmits the request exactly once, as
\* third bus operation after clearFilters and addFilter(filter, 0x7FF), with
\* id = header, length = len, rtr = frame, data[i] = payload[i] below len
\* and no payload byte at or above len.
C8_RequestOnceAfterFilter ==
  InCall /\ ValidLen /\ mode = "CALL_AND_RESP" =>
    LET reqs == Entries(ops, IsRequest)
    IN  /\ Len(reqs) <= 1
        /\ pc = "send" => filters = {<<filter, 2047>>} /\ reqs = <<>>
        /\ pc \notin {"guard", "clear1", "add1", "send"} =>
             /\ Len(reqs) = 1
             /\ ops[1].op = "clearFilters"
             /\ ops[2] = [op |-> "addFilter", id |-> filter, mask |-> 2047]
             /\ ops[3] = reqs[1]
             /\ reqs[1].msg.id = header
             /\ reqs[1].msg.len = len
             /\ reqs[1].msg.rtr = frame
             /\ \A i \in 1..8 :
                  reqs[1].msg.data[i] = IF i <= len THEN Payload[i] ELSE 0

\* C8 witness: the request of poll(0x200, 0x200, CALL_AND_RESP, DATA, [1,2,..], 2)
\* has just been transmitted.
C8_Witness ==
  /\ pc = "status" /\ mode = "CALL_AND_RESP" /\ len = 2 /\ header = 512
  /\ ~frame
  /\ ops[3].msg = [id |-> 512, len |-> 2, rtr |-> FALSE,
                    data |-> <<1, 2, 0, 0, 0, 0, 0, 0>>]

OpNames(o) == [i \in 1..Len(o) |-> o[i].op]
\* the operations of a valid call up to and including errorStatus()
Prefix == <<"clearFilters", "addFilter">>
            \o (IF mode = "CALL_AND_RESP" THEN <<"transmit">> ELSE <<>>)
\* the operations between errorStatus() and the restoring _set_mask()
Middles ==
  IF ErrorSeen THEN {<<"transmit">>}
  ELSE {<<"receive">>, <<"receive", "receive">>}

\* C9: the bus operations of a valid call occur in the order clearFilters,
\* addFilter(filter, 0x7FF), transmit(request) only in CALL_AND_RESP mode,
\* one errorStatus(), then receive attempts (no error) or one diagnostic
\* transmit (error), then clearFilters, addFilter(node_id, 0x7FF); the
\* status is queried once, and the wait ends only by a frame or the timeout.
C9_OperationOrder ==
  InCall /\ ValidLen =>
    LET names == OpNames(ops)
    IN  /\ Len(Entries(ops, IsStatus)) <= 1
        /\ pc \in {"guard", "clear1"} => names = <<>>
        /\ pc = "add1" => names = <<"clearFilters">>
        /\ pc = "send" => names = <<"clearFilters", "addFilter">>
        /\ pc = "status" => names = Prefix
        /\ pc = "diag" => names = Prefix \o <<"errorStatus">> /\ ErrorSeen
        /\ pc = "recv" =>
             /\ ~ErrorSeen
             /\ names \in {Prefix \o <<"errorStatus">>,
                            Prefix \o <<"errorStatus", "receive">>}
        /\ pc = "deadline" =>
             ~ErrorSeen /\ names = Prefix \o <<"errorStatus", "receive">>
        /\ pc = "clear2" =>
             \E m \in Middles : names = Prefix \o <<"errorStatus">> \o m
        /\ pc = "add2" =>
             \E m \in Middles :
               names = Prefix \o <<"errorStatus">> \o m \o <<"clearFilters">>
        /\ pc = "ret" =>
             /\ \E m \in Middles :
                  names = Prefix \o <<"errorStatus">> \o m
                             \o <<"clearFilters", "addFilter">>
             /\ ops[2].id = filter /\ ops[2].mask = 2047
             /\ ops[Len(ops)].id = _node_id /\ ops[Len(ops)].mask = 2047
        /\ Restoring =>
             /\ path \in {"matched", "timeout", "error"}
             /\ path = "error" <=> ErrorSeen
             /\ path = "matched" <=> Entries(ops, IsReceived) # <<>>

\* C9 witness: a CALL_AND_RESP call that waited, then matched, is about to
\* return after eight logged operations.
C9_Witness ==
  /\ pc = "ret" /\ mode = "CALL_AND_RESP" /\ path = "matched" /\ ValidLen
  /\ OpNames(ops) = <<"clearFilters", "addFilter", "transmit", "errorStatus",
                       "receive", "receive", "clearFilters", "addFilter">>

\* C10: with the clock advancing and the loop running, every poll call that
\* has been entered returns.
C10_PollReturns == (pc = "guard") ~> (pc = "idle")

\* C10 witness: a call with the largest timeout and no frame has left the
\* wait loop through the timeout branch.
C10_Witness ==
  /\ pc = "ret" /\ path = "timeout" /\ ValidLen
  /\ _timeout = Wrap - 1 /\ elapsed = Wrap - 1

\* ----------------------------------------------------------------------
\* _decode on its own: two byte arrays and a length are drawn, then decoded
\* ----------------------------------------------------------------------
\* the byte arrays tried: all zero, all different, all ones, and every array
\* with a single nonzero byte (1 or 255)
ProbeArrays ==
  {Zeros8, Payload, [i \in 1..8 |-> 255]}
    \cup {[Zeros8 EXCEPT ![i] = v] : i \in 1..8, v \in {1, 255}}

DecodeInit ==
  /\ pc = "probe"
  /\ probe \in [a : ProbeArrays, b : ProbeArrays, n : 0..8,
                 ra : {NoValue}, rb : {NoValue}]
  /\ _node_id \in NodeIds
  /\ t_arg = 0 /\ _timeout = 0 /\ _baud_rate = BaudRate /\ _debug = FALSE
  /\ filters = {<<DefaultMask(_node_id), CompareMask>>}
  /\ rxQueue = <<>> /\ clock = 0
  /\ header = 0 /\ filter = 0 /\ mode = "PASSIVE_POLL" /\ frame = FALSE /\ len = 0
  /\ entry = "none" /\ t_stamp = 0 /\ response = EmptyMessage
  /\ retval = NoValue /\ ops = <<>> /\ path = "none" /\ elapsed = 0 /\ fresh = TRUE

\* _decode(a, n) and _decode(b, n) are evaluated
DecodeStep ==
  /\ pc = "probe"
  /\ pc' = "probed"
  /\ probe' = [probe EXCEPT !.ra = _decode(probe.a, probe.n),
                            !.rb = _decode(probe.b, probe.n)]
  /\ UNCHANGED <<bus, clock, fields, args, t_stamp, response, retval, ops, path,
                 elapsed, fresh>>

DecodeSpec == DecodeInit /\ [][DecodeStep]_vars

\* C13: for every len in [0,8], two arrays that differ in a byte below len
\* decode to different values, two arrays that agree below len decode to the
\* same value whatever their bytes at and above len, and len = 0 gives 0.
C13_DecodeInjective ==
  pc = "probed" =>
    LET differ == \E i \in 1..probe.n : probe.a[i] # probe.b[i]
    IN  /\ differ => probe.ra # probe.rb
        /\ ~differ => probe.ra = probe.rb
        /\ probe.n = 0 => probe.ra = <<0, 0, 0, 0>>
        /\ \A i \in 0..7 :
             ByteOf(probe.ra, i) = IF i < probe.n THEN probe.a[i + 1] ELSE 0

\* C13 witness: two arrays that differ only in a high byte were decoded with
\* len 8 to different values, the first one nonzero.
C13_Witness ==
  /\ pc = "probed" /\ probe.n = 8
  /\ probe.a = <<0, 0, 0, 0, 0, 0, 0, 255>> /\ probe.b = Zeros8
  /\ probe.ra = <<0, 0, 0, 65280>> /\ probe.rb = <<0, 0, 0, 0>>

\* ----------------------------------------------------------------------
\* The constructor on its own, from the assignment of the fields on
\* ----------------------------------------------------------------------
\* how a begin() call can end: the bus is up, the bus is not up and begin()
\* returns all the same, or begin() raises
BeginOutcomes == {"ok", "failed", "raised"}

\* variant of the mode selection that never asks for the test mode
BeginTestMode_Never(d) == FALSE

\* begin() is called with CAN_TEST_MODE exactly when _debug is set
BeginTestMode(d) == d

\* variant of the constructor that stops when begin() left the bus down
AfterBegin_Checked(r) == IF r = "ok" THEN "clear0" ELSE "failed"

\* where the constructor goes after begin(): its result is not looked at;
\* only an exception leaves the constructor
AfterBegin(r) == IF r = "raised" THEN "failed" ELSE "clear0"

\* the fields are assigned (lines 13-17); nothing has been done to the bus
CtorInit ==
  /\ pc = "begin"
  /\ _node_id \in NodeIds
  /\ t_arg \in CtorTimeouts
  /\ _timeout = ToULong(t_arg)
  /\ _baud_rate \in BaudRates
  /\ _debug \in BOOLEAN
  /\ filters = {} /\ rxQueue = <<>>
  /\ clock \in 0 .. (Wrap - 1)
  /\ header = 0 /\ filter = 0 /\ mode = "PASSIVE_POLL" /\ frame = FALSE /\ len = 0
  /\ entry = "none" /\ probe = NoProbe
  /\ t_stamp = 0 /\ response = EmptyMessage
  /\ retval = NoValue /\ ops = <<>> /\ path = "none" /\ elapsed = 0 /\ fresh = TRUE

\* if (_debug) _can->begin(_baud_rate, CAN_TEST_MODE); else _can->begin(_baud_rate);
CtorBegin ==
  \E r \in BeginOutcomes :
    /\ pc = "begin"
    /\ ops' = Log(ops, [op |-> "begin", rate |-> _baud_rate,
                        test |-> BeginTestMode(_debug), result |-> r])
    /\ pc' = AfterBegin(r)
    /\ UNCHANGED <<bus, clock, fields, probe, args, t_stamp, response, retval, path,
                   elapsed, fresh>>

\* frames reach the receive queue only of a bus that is up
CtorBusArrive ==
  /\ pc \in {"clear0", "add0", "constructed"}
  /\ ops[1].result = "ok"
  /\ BusArrive

CtorNext == CtorBegin \/ SetMaskClear \/ SetMaskAdd \/ Tick \/ CtorBusArrive

CtorSpec == CtorInit /\ [][CtorNext]_vars

BeginCalls == Entries(ops, LAMBDA e : e.op = "begin")

\* C14: the constructor calls begin() once, first, with the given bit rate
\* and with the test mode exactly when debug is set, then clearFilters and
\* addFilter(node_id, 0x7FF), and nothing else: no transmit, no receive;
\* it leaves the single filter entry (node_id, 0x7FF).
C14_ConstructionOrder ==
  /\ pc = "begin" => ops = <<>>
  /\ pc \in {"clear0", "add0", "constructed", "failed"} =>
       /\ Len(BeginCalls) = 1
       /\ ops[1].op = "begin"
       /\ ops[1].rate = _baud_rate
       /\ ops[1].test = _debug
  /\ pc \in {"clear0", "failed"} => Len(ops) = 1
  /\ pc = "add0" => OpNames(ops) = <<"begin", "clearFilters">>
  /\ pc = "constructed" =>
       /\ OpNames(ops) = <<"begin", "clearFilters", "addFilter">>
       /\ ops[3] = [op |-> "addFilter", id |-> _node_id, mask |-> 2047]
       /\ filters = {<<_node_id, 2047>>}
  /\ Entries(ops, IsTransmit) = <<>> /\ Entries(ops, IsReceive) = <<>>

\* C14 witness: a poller built with debug set at 125000 bit/s is constructed.
C14_Witness ==
  /\ pc = "constructed" /\ _debug /\ _baud_rate = 125000
  /\ ops[1] = [op |-> "begin", rate |-> 125000, test |-> TRUE, result |-> "ok"]
  /\ filters = {<<256, 2047>>}

\* C15: whenever begin() did not bring the bus up, the constructor stops
\* there: it installs no filter and no poller results.
C15_BeginFailurePropagates ==
  (BeginCalls # <<>> /\ BeginCalls[1].result # "ok") =>
    /\ pc = "failed"
    /\ Len(ops) = 1
    /\ filters = {}

\* C16: the hardware filter list never holds more than one entry; it is
\* empty only between the clearFilters and the addFilter of one update, and
\* after each completed update it is exactly the one entry (mask, 0x7FF) of
\* that update: the call's filter during the call, node_id after it.
C16_SingleFilterEntry ==
  /\ [](/\ Cardinality(filters) <= 1
        /\ (filters = {}) <=> (pc \in {"add1", "add2"})
        /\ pc \in {"send", "status", "recv", "deadline", "diag", "clear2"} =>
             filters = {<<filter, 2047>>}
        /\ pc \in {"idle", "guard", "clear1", "ret"} => filters = {<<_node_id, 2047>>})
  /\ [][(pc' # pc /\ pc \in {"add1", "add2"}) =>
          (/\ Cardinality(filters') = 1
           /\ ops'[Len(ops')].op = "addFilter"
           /\ filters' = {<<ops'[Len(ops')].id, 2047>>})]_vars

\* C16 witness: the update for filter 0x200 has replaced the default entry.
C16_Witness ==
  /\ pc = "send" /\ filter = 512 /\ _node_id = 256
  /\ filters = {<<512, 2047>>}

\* C17: a valid poll that gets no frame blocks for at most the timeout it
\* was given as an int, zero and negative values included (a millisecond of
\* tolerance for the granularity of the counter).
C17_BlocksAtMostTimeout ==
  (InWait \/ path = "timeout") => elapsed <= (IF t_arg > 1 THEN t_arg ELSE 1)

\* C18: the frame a matched call decodes carries the identifier the call
\* filtered on: it was accepted under (filter, 0x7FF) of that call, not under
\* the default filter before the call nor between clearFilters and addFilter.
C18_MatchedFrameIdIsFilter ==
  path = "matched" => response.id = filter

\* C19: each iteration of the wait loop attempts receive() before it tests
\* the deadline: the deadline test always follows a failed receive, a call
\* that timed out made at least one receive attempt (with timeout 0 too),
\* and a receive that finds a frame returns it whether or not the deadline
\* has passed.
C19_ReceiveBeforeDeadline ==
  /\ [](pc = "deadline" => ops[Len(ops)] = [op |-> "receive", ok |-> FALSE])
  /\ [](path \in {"timeout", "matched"} => Entries(ops, IsReceive) # <<>>)
  /\ [][(pc' # pc /\ pc = "recv" /\ rxQueue # <<>>) =>
          (/\ path' = "matched"
           /\ response' = Head(rxQueue)
           /\ pc' = "clear2")]_vars
  /\ [][(pc' # pc /\ pc = "status") => pc' \in {"recv", "diag"}]_vars

\* C19 witness: with timeout 0, so with the deadline passed from the start
\* of the wait, the first receive found a frame and the call returns it.
C19_Witness ==
  /\ pc = "ret" /\ path = "matched" /\ _timeout = 0
  /\ Entries(ops, IsReceive) = <<[op |-> "receive", ok |-> TRUE]>>
  /\ retval = <<42, 0, 0, 0>>

\* C20: the wait ends through the deadline test exactly when _timeout
\* milliseconds have passed since t_stamp, neither earlier nor later, also
\* when the counter has wrapped since t_stamp (clock < t_stamp): elapsed
\* counts the true milliseconds, the code sees only (clock - t_stamp) mod 2^w.
C20_WrapSafeDeadline ==
  /\ [](InWait => /\ elapsed < Wrap
                  /\ (clock - t_stamp) % Wrap = elapsed
                  /\ elapsed <= (IF _timeout > 1 THEN _timeout ELSE 1))
  /\ [](path = "timeout" =>
          /\ _timeout <= elapsed
          /\ elapsed <= (IF _timeout > 1 THEN _timeout ELSE 1))
  /\ [][(pc = "deadline" /\ pc' # pc) =>
          ((pc' = "clear2" /\ path' = "timeout") <=> (elapsed >= _timeout))]_vars

\* C20 witness: the deadline test is reached with the counter wrapped since
\* t_stamp and exactly _timeout > 0 milliseconds elapsed.
C20_Witness ==
  /\ pc = "deadline" /\ clock < t_stamp
  /\ _timeout = 2 /\ elapsed = 2 /\ t_stamp = Wrap - 1 /\ clock = 1

\* C11: the timeout in force is always the (unsigned long) conversion of
\* the argument of the latest change_timeout (or of the constructor when
\* there was none), whatever was set before; the deadline test of every
\* later poll compares against it; and a step that sets the timeout is made
\* outside poll and touches neither the bus nor the node id.
C11_LastTimeoutWins ==
  /\ [](_timeout = t_arg % Wrap)
  /\ [][t_arg' # t_arg \/ _timeout' # _timeout =>
          /\ pc = "idle" /\ pc' = "idle"
          /\ UNCHANGED <<filters, rxQueue, _node_id, ops>>]_vars
  /\ [][pc = "deadline" /\ pc' = "clear2" => elapsed >= t_arg % Wrap]_vars
  /\ [][pc = "deadline" /\ pc' = "recv" /\ elapsed < Wrap
          => elapsed < t_arg % Wrap]_vars

\* C11 witness: the constructor was given 0 or 2; after change_timeout(1) a
\* poll without frame has timed out after 1 ms.
C11_Witness ==
  /\ pc = "ret" /\ path = "timeout"
  /\ t_arg = 1 /\ _timeout = 1 /\ elapsed = 1

\* C12: entering through the five-argument poll(header, ...) puts the poller
\* in exactly the state in which the six-argument poll(header, header, ...)
\* starts (same arguments with filter = header, bus, clock and fields
\* untouched), so the call then runs as that call does: it installs the
\* filter (header, 0x7FF) and its request, if any, carries id = header.
C12_OverloadDelegates ==
  /\ [][pc = "idle" /\ entry' = "poll5" =>
          /\ pc' = "guard"
          /\ header' \in Ids /\ filter' = header'
          /\ mode' \in Modes /\ frame' \in BOOLEAN /\ len' \in Lens
          /\ ops' = <<>> /\ path' = "none" /\ retval' = NoValue
          /\ UNCHANGED <<filters, rxQueue, clock, _node_id, _timeout, t_stamp,
                         response>>]_vars
  /\ [](entry = "poll5" =>
          /\ InCall /\ filter = header
          /\ Len(ops) >= 2 =>
               ops[2] = [op |-> "addFilter", id |-> header, mask |-> 2047]
          /\ \A i \in 1..Len(ops) : IsRequest(ops[i]) => ops[i].msg.id = header)
  /\ [](entry = "none" <=> pc = "idle")

\* C12 witness: poll(0x200, CALL_AND_RESP, ...) through the overload listened
\* on 0x200 and is about to return 42.
C12_Witness ==
  /\ pc = "ret" /\ entry = "poll5" /\ path = "matched"
  /\ header = 512 /\ mode = "CALL_AND_RESP"
  /\ ops[2].id = 512
  /\ retval = <<42, 0, 0, 0>>

=============================================================================
